---- MODULE Spec2Model ----
(***************************************************************************)
(* A model of tsm-language-server: the extraction of the string literals   *)
(* of the `folders` array (src/src/parser.rs), and the diagnostics,        *)
(* completion, quick-fix and document-store handlers built on it           *)
(* (src/src/backend.rs).                                                   *)
(*                                                                         *)
(* A text is a sequence of one-character strings.  Byte offsets, rows and  *)
(* columns are 0-based as in tree-sitter; sequence indices are 1-based.    *)
(* Only ASCII is modelled, so a byte, a column and an LSP character agree. *)
(*                                                                         *)
(* backend.rs calls parse_code(text, &self.args.varname); parser.rs takes  *)
(* the text alone and compares the declarator's name with "folders".  The  *)
(* model follows parser.rs.                                                *)
(***************************************************************************)
EXTENDS Integers, Sequences, FiniteSets, TLC

DQ == "\""
SQ == "'"
BS == "\\"
NL == "\n"
SP == " "

Letters == {"a", "b", "c", "d", "e", "f", "i", "l", "o", "r", "s", "t", "x", "_"}
Digits == {"7"}

\* The identifier the query compares the declarator's name with.
TargetId == <<"f", "o", "l", "d", "e", "r", "s">>
\* The keywords that open a lexical or variable declaration.
DeclKeywords == {<<"l", "e", "t">>, <<"v", "a", "r">>, <<"c", "o", "n", "s", "t">>}

Max(S) == CHOOSE x \in S : \A y \in S : y <= x
Min2(a, b) == IF a <= b THEN a ELSE b

(***************************************************************************)
(* The parser: the part of tree-sitter's TypeScript grammar the model's    *)
(* texts use.  Tokens carry their byte span [from, to).                    *)
(***************************************************************************)
RECURSIVE IdentEnd(_, _)
IdentEnd(src, i) ==
    IF i <= Len(src) /\ src[i] \in Letters \cup Digits
    THEN IdentEnd(src, i + 1)
    ELSE i

\* The index just after the closing quote q of a string whose body starts at i;
\* a backslash escapes the character after it.
RECURSIVE StringEnd(_, _, _)
StringEnd(src, q, i) ==
    IF i > Len(src) THEN i
    ELSE IF src[i] = BS THEN StringEnd(src, q, Min2(i + 2, Len(src) + 1))
    ELSE IF src[i] = q THEN i + 1
    ELSE StringEnd(src, q, i + 1)

RECURSIVE Tokens(_, _)
Tokens(src, i) ==
    IF i > Len(src) THEN <<>>
    ELSE LET c == src[i] IN
         IF c \in {SP, NL} THEN Tokens(src, i + 1)
         ELSE IF c \in Letters
              THEN LET j == IdentEnd(src, i)
                   IN <<[kind |-> "identifier", from |-> i - 1, to |-> j - 1]>>
                          \o Tokens(src, j)
         ELSE IF c \in Digits
              THEN LET j == IdentEnd(src, i)
                   IN <<[kind |-> "number", from |-> i - 1, to |-> j - 1]>>
                          \o Tokens(src, j)
         ELSE IF c \in {DQ, SQ}
              THEN LET j == StringEnd(src, c, i + 1)
                   IN <<[kind |-> "string", from |-> i - 1, to |-> j - 1]>>
                          \o Tokens(src, j)
         ELSE <<[kind |-> c, from |-> i - 1, to |-> i]>> \o Tokens(src, i + 1)

\* The bytes [from, to) of src.
Slice(src, from, to) == SubSeq(src, from + 1, to)

\* tree-sitter's Point of a byte offset: the row is the number of line breaks
\* before it, the column the bytes since the last one.
PointAt(src, b) ==
    LET breaks == {k \in 1..b : src[k] = NL}
    IN [row |-> Cardinality(breaks),
        column |-> b - (IF breaks = {} THEN 0 ELSE Max(breaks))]

\* A range of the literal's content only, its quote marks left out.
NodeRangeContent(src, tok) ==
    [start_byte |-> tok.from + 1, end_byte |-> tok.to - 1,
     start_point |-> PointAt(src, tok.from + 1),
     end_point |-> PointAt(src, tok.to - 1)]

\* Node::range().
NodeRange(src, tok) ==
    [start_byte |-> tok.from, end_byte |-> tok.to,
     start_point |-> PointAt(src, tok.from), end_point |-> PointAt(src, tok.to)]

\* str::trim_matches('"'): every leading and every trailing double quote goes.
RECURSIVE TrimStart(_)
TrimStart(s) == IF s # <<>> /\ Head(s) = DQ THEN TrimStart(Tail(s)) ELSE s
RECURSIVE TrimEnd(_)
TrimEnd(s) ==
    IF s # <<>> /\ s[Len(s)] = DQ THEN TrimEnd(SubSeq(s, 1, Len(s) - 1)) ELSE s
trim_matches(s) == TrimEnd(TrimStart(s))

node_text(src, tok) == trim_matches(Slice(src, tok.from, tok.to))

\* Whether toks[k] opens `name = [` of a variable_declarator: a declaration
\* keyword, or the comma of a declarator list, comes before the name.
IsDeclarator(src, toks, k) ==
    /\ k >= 2 /\ k + 2 <= Len(toks)
    /\ toks[k].kind = "identifier"
    /\ toks[k - 1].kind = "identifier"
    /\ Slice(src, toks[k - 1].from, toks[k - 1].to) \in DeclKeywords
    /\ toks[k + 1].kind = "="
    /\ toks[k + 2].kind = "["

\* The index of the `]` that closes the array opened at toks[k] (Len + 1 if none).
RECURSIVE ArrayClose(_, _, _)
ArrayClose(toks, k, depth) ==
    IF k > Len(toks) THEN k
    ELSE IF toks[k].kind = "[" THEN ArrayClose(toks, k + 1, depth + 1)
    ELSE IF toks[k].kind = "]"
         THEN IF depth = 1 THEN k ELSE ArrayClose(toks, k + 1, depth - 1)
    ELSE ArrayClose(toks, k + 1, depth)

\* Every element of the array at depth 1, whatever its kind.
RECURSIVE ArrayItemsAll(_, _, _, _)
ArrayItemsAll(toks, k, close, depth) ==
    IF k >= close THEN <<>>
    ELSE IF toks[k].kind = "[" THEN ArrayItemsAll(toks, k + 1, close, depth + 1)
    ELSE IF toks[k].kind = "]" THEN ArrayItemsAll(toks, k + 1, close, depth - 1)
    ELSE IF /\ toks[k].kind \in {"string", "number"} /\ depth = 1
            /\ toks[k - 1].kind \in {"[", ","}
            /\ toks[k + 1].kind \in {"]", ","}
         THEN <<toks[k]>> \o ArrayItemsAll(toks, k + 1, close, depth)
    ELSE ArrayItemsAll(toks, k + 1, close, depth)

\* The (string) children of the array whose `[` is toks[open]: the string
\* tokens at depth 1 that form a whole element.
RECURSIVE ArrayItems(_, _, _, _)
ArrayItems(toks, k, close, depth) ==
    IF k >= close THEN <<>>
    ELSE IF toks[k].kind = "[" THEN ArrayItems(toks, k + 1, close, depth + 1)
    ELSE IF toks[k].kind = "]" THEN ArrayItems(toks, k + 1, close, depth - 1)
    ELSE IF /\ toks[k].kind = "string" /\ depth = 1
            /\ toks[k - 1].kind \in {"[", ","}
            /\ toks[k + 1].kind \in {"]", ","}
         THEN <<toks[k]>> \o ArrayItems(toks, k + 1, close, depth)
    ELSE ArrayItems(toks, k + 1, close, depth)

\* The captures with the matches taken last first.
RECURSIVE CapturesLastFirst(_, _, _)
CapturesLastFirst(src, toks, k) ==
    IF k > Len(toks) THEN <<>>
    ELSE IF /\ IsDeclarator(src, toks, k)
            /\ Slice(src, toks[k].from, toks[k].to) = TargetId
         THEN LET close == ArrayClose(toks, k + 3, 1)
              IN CapturesLastFirst(src, toks, close + 1)
                     \o ArrayItems(toks, k + 3, close, 1)
    ELSE CapturesLastFirst(src, toks, k + 1)

\* The @item captures of every match of the query, in document order.
RECURSIVE Captures(_, _, _)
Captures(src, toks, k) ==
    IF k > Len(toks) THEN <<>>
    ELSE IF /\ IsDeclarator(src, toks, k)
            /\ Slice(src, toks[k].from, toks[k].to) = TargetId
         THEN LET close == ArrayClose(toks, k + 3, 1)
              IN ArrayItems(toks, k + 3, close, 1) \o Captures(src, toks, close + 1)
    ELSE Captures(src, toks, k + 1)

parse_code(source_code) ==
    LET caps == Captures(source_code, Tokens(source_code, 1), 1)
    IN [n \in 1..Len(caps) |->
           [text |-> node_text(source_code, caps[n]),
            range |-> NodeRange(source_code, caps[n])]]

(***************************************************************************)
(* The texts the model reads: one or two declarations, each an array of    *)
(* string and number elements, on one line or on two.                      *)
(***************************************************************************)
\* The most array elements a text holds, over all its declarations.
MaxLits == 2

OtherId == <<"o", "t", "h", "e", "r">>
Contents == {<<"a">>, <<>>}
ElemForms == [q : {DQ}, body : Contents] \cup {[q |-> "", body |-> <<"7">>]}

RenderElem(e) == IF e.q = "" THEN e.body ELSE <<e.q>> \o e.body \o <<e.q>>

RECURSIVE RenderElems(_)
RenderElems(es) ==
    IF es = <<>> THEN <<>>
    ELSE IF Len(es) = 1 THEN RenderElem(es[1])
    ELSE RenderElem(es[1]) \o <<",">> \o RenderElems(Tail(es))

RenderDecl(d) ==
    <<"l", "e", "t", SP>> \o d.name \o <<"=", "[">> \o RenderElems(d.elems) \o <<"]", ";">>

ElemSeqs(n) == UNION {[1..k -> ElemForms] : k \in 0..n}
\* The declarations of `folders`, and the one declaration of another name.
Decls(n) == [name : {TargetId}, elems : ElemSeqs(n)]
OtherDecl == [name |-> OtherId, elems |-> <<[q |-> DQ, body |-> <<"a">>]>>]

Texts ==
    {RenderDecl(d) : d \in Decls(MaxLits) \cup {OtherDecl}}
    \cup {RenderDecl(x[1]) \o <<x[3]>> \o RenderDecl(x[2]) :
            x \in {y \in (Decls(MaxLits) \cup {OtherDecl})
                            \X (Decls(MaxLits) \cup {OtherDecl}) \X {NL, SP} :
                     /\ TargetId \in {y[1].name, y[2].name}
                     /\ y[1].name = y[2].name
                            => Len(y[1].elems) + Len(y[2].elems) <= MaxLits}}

(***************************************************************************)
(* The suggestions directory and the handlers' pure parts.                 *)
(***************************************************************************)
\* fs::read_dir fails, or lists the directory's entries (distinct names).
FsErr == [ok |-> FALSE, entries |-> <<>>]
FsOk(names) == [ok |-> TRUE, entries |-> names]

get_files(root) == IF root.ok THEN root.entries ELSE <<>>

Contains(seq, x) == \E k \in 1..Len(seq) : seq[k] = x

\* impl From<MyRange> for lsp_types::Range.
ToLspRange(r) ==
    [start |-> [line |-> r.start_point.row, character |-> r.start_point.column],
     end |-> [line |-> r.end_point.row, character |-> r.end_point.column]]

JsonString(s) == [tag |-> "String", val |-> s]
JsonNumber(digits) == [tag |-> "Number", val |-> digits]
NoData == [tag |-> "None", val |-> <<>>]

MkDiagnostic(invalid_folder) ==
    [range |-> ToLspRange(invalid_folder.range),
     severity |-> "ERROR",
     code |-> "100",
     source |-> "tsm-language-server",
     message |-> <<"'", invalid_folder.text,
                   "' is not a valid folder, valid folders are those in '",
                   "suggestionsdir", "'">>,
     data |-> JsonString(invalid_folder.text)]

\* [n \in 1..Len(s) |-> f(s[n])], the iterator's map.
MapSeq(s, f(_)) == [n \in 1..Len(s) |-> f(s[n])]

\* perform_diagnostics without its filter: every literal is reported.
perform_diagnostics_unfiltered(source_code, root) ==
    MapSeq(parse_code(source_code), MkDiagnostic)

perform_diagnostics(source_code, root) ==
    LET used_folders == parse_code(source_code)
        available_folders == get_files(root)
        invalid(used_folder) == ~Contains(available_folders, used_folder.text)
    IN MapSeq(SelectSeq(used_folders, invalid), MkDiagnostic)

(***************************************************************************)
(* The document store: HashMap<Url, String>, as its set of entries.        *)
(***************************************************************************)
HasKey(docs, uri) == \E e \in docs : e.uri = uri
Get(docs, uri) == (CHOOSE e \in docs : e.uri = uri).text
\* An insert that leaves the key's old entry in place.
InsertKeepOld(docs, uri, content) == docs \cup {[uri |-> uri, text |-> content]}

\* HashMap::insert: the entry of the key, if any, is replaced.
Insert(docs, uri, content) ==
    {e \in docs : e.uri # uri} \cup {[uri |-> uri, text |-> content]}
\* HashMap::remove.
Remove(docs, uri) == {e \in docs : e.uri # uri}

(***************************************************************************)
(* The RwLock of the store: RwLock::write waits until nobody holds the     *)
(* lock, RwLock::read until no writer does.                                *)
(***************************************************************************)
\* A write lock that waits for the writer only, not for the readers.
CanWriteIgnoringReaders(lock) == lock.writer = 0

CanWrite(lock) == lock.writer = 0 /\ lock.readers = {}
CanRead(lock) == lock.writer = 0

(***************************************************************************)
(* Completion.                                                             *)
(***************************************************************************)
\* A completion item that inserts the label in quote marks.
to_completionitem_quoted(label) ==
    [label |-> label, detail |-> "Directory", kind |-> "FOLDER",
     insert_text |-> <<DQ>> \o label \o <<DQ>>]

to_completionitem(label) ==
    [label |-> label, detail |-> "Directory", kind |-> "FOLDER", insert_text |-> label]

None == [kind |-> "None"]
SomeArray(items) == [kind |-> "Array", items |-> items]

\* `find` with the range's boundary columns taken as inside.
AtPositionInclusive(item, position) ==
    /\ item.range.start_point.row = position.line
    /\ item.range.start_point.column <= position.character
    /\ item.range.end_point.column >= position.character

\* The closure of `find`: the cursor is on the item's first row, between its
\* range's start and end columns.
AtPosition(item, position) ==
    /\ item.range.start_point.row = position.line
    /\ item.range.start_point.column < position.character
    /\ item.range.end_point.column > position.character

\* The items the handler parses out of the stored text (none without one).
completion_items(docs, uri) ==
    IF HasKey(docs, uri) THEN parse_code(Get(docs, uri)) ELSE <<>>

\* The handler from `find` on, given the items parsed out of the stored text.
completion_find(all_items, root, position) ==
    IF \E n \in 1..Len(all_items) : AtPosition(all_items[n], position)
    THEN SomeArray(MapSeq(get_files(root), to_completionitem))
    ELSE None

completion(docs, root, uri, position) ==
    IF ~HasKey(docs, uri) THEN None
    ELSE completion_find(completion_items(docs, uri), root, position)

(***************************************************************************)
(* Quick fixes.  SkimMatcherV2::fuzzy_match(choice, pattern) is the        *)
(* fuzzy_matcher crate's: an empty pattern matches every choice with       *)
(* score 0, a pattern that is not a subsequence of the choice matches      *)
(* nothing, and otherwise the score is the crate's own, here the function  *)
(* `scores` of the choice (any one: the model fixes no scoring rule).      *)
(* Smart case is case-insensitive for the lower-case patterns modelled.    *)
(***************************************************************************)
RECURSIVE IsSubseq(_, _)
IsSubseq(pattern, choice) ==
    IF pattern = <<>> THEN TRUE
    ELSE IF choice = <<>> THEN FALSE
    ELSE IF Head(pattern) = Head(choice) THEN IsSubseq(Tail(pattern), Tail(choice))
    ELSE IsSubseq(pattern, Tail(choice))

NoMatch == [some |-> FALSE, score |-> 0]
Score(n) == [some |-> TRUE, score |-> n]

\* A matcher that scores every choice, whatever the pattern.
fuzzy_match_any(scores, choice, pattern) ==
    IF pattern = <<>> THEN Score(0) ELSE Score(scores[choice])

fuzzy_match(scores, choice, pattern) ==
    IF pattern = <<>> THEN Score(0)
    ELSE IF ~IsSubseq(pattern, choice) THEN NoMatch
    ELSE Score(scores[choice])

\* The comparison the other way round (a.1.cmp(&b.1)): the lower score first.
InsertByScoreAscending(sorted, m) ==
    LET k == Cardinality({n \in 1..Len(sorted) : sorted[n][2] <= m[2]})
    IN SubSeq(sorted, 1, k) \o <<m>> \o SubSeq(sorted, k + 1, Len(sorted))

\* slice::sort_by(|a, b| b.1.cmp(&a.1)): stable, the higher score first.
InsertByScore(sorted, m) ==
    LET k == Cardinality({n \in 1..Len(sorted) : sorted[n][2] >= m[2]})
    IN SubSeq(sorted, 1, k) \o <<m>> \o SubSeq(sorted, k + 1, Len(sorted))

RECURSIVE SortByScore(_)
SortByScore(ms) ==
    IF ms = <<>> THEN <<>>
    ELSE InsertByScore(SortByScore(SubSeq(ms, 1, Len(ms) - 1)), ms[Len(ms)])

Take(s, n) == SubSeq(s, 1, Min2(n, Len(s)))

get_best_matches(scores, user_input, possible_matches, top_n) ==
    LET matched(s) == fuzzy_match(scores, s, user_input).some
        pair(s) == <<s, fuzzy_match(scores, s, user_input).score>>
        matches_with_scores == MapSeq(SelectSeq(possible_matches, matched), pair)
        first(m) == m[1]
    IN MapSeq(Take(SortByScore(matches_with_scores), top_n), first)

\* The matches code_action asks for.
TopN == 15

MkCodeAction(uri, diagnostic, best_match) ==
    [title |-> <<"Use folder ", best_match>>,
     kind |-> "quickfix",
     diagnostics |-> <<diagnostic>>,
     edit |-> [uri |-> uri,
               edits |-> <<[range |-> diagnostic.range,
                            new_text |-> <<DQ>> \o best_match \o <<DQ>>]>>]]

\* diagnostic.data, or the JSON string "" when there is none.
DataOf(diagnostic) ==
    IF diagnostic.data.tag = "None" THEN JsonString(<<>>) ELSE diagnostic.data

Panic == [kind |-> "panic"]
CodeActions(actions) == [kind |-> "CodeActions", actions |-> actions]

\* The loop over params.context.diagnostics; as_str().unwrap() panics on data
\* that is no JSON string, and the panic ends the request.
RECURSIVE code_action_loop(_, _, _, _, _)
code_action_loop(scores, available_folders, uri, diagnostics, actions) ==
    IF diagnostics = <<>> THEN CodeActions(actions)
    ELSE LET diagnostic == Head(diagnostics)
             data == DataOf(diagnostic)
         IN IF data.tag # "String" THEN Panic
            ELSE LET best_matches ==
                         get_best_matches(scores, data.val, available_folders, TopN)
                     action(best_match) == MkCodeAction(uri, diagnostic, best_match)
                 IN code_action_loop(scores, available_folders, uri, Tail(diagnostics),
                                     actions \o MapSeq(best_matches, action))

code_action(scores, root, uri, diagnostics) ==
    code_action_loop(scores, get_files(root), uri, diagnostics, <<>>)

(***************************************************************************)
(* State.                                                                  *)
(***************************************************************************)
VARIABLES
    text,       \* the text a request is about
    fs,         \* the suggestions directory
    documents,  \* Backend::documents
    skim,       \* the matcher's score of each candidate, for the request's query
    req,        \* the request being answered
    locals,     \* the handler's parsed items when it returned
    resp,       \* its result
    push_diagnostics,   \* Backend::push_diagnostics
    initialized,        \* whether the initialize request has been answered
    published,  \* per document, the diagnostics the client was last sent
    last,       \* per document, the text of its latest open or change not
                \* followed by a close (kept for the claims only)
    tasks,      \* the handlers in flight: request, position in the code, locals
    rw,         \* the RwLock of `documents`: its writer and its readers
    written     \* the entries whose insert has begun (kept for the claims only)

serverVars == <<push_diagnostics, initialized, published, last>>
concVars == <<tasks, rw, written>>
vars == <<text, fs, documents, skim, req, locals, resp, serverVars, concVars>>

U1 == "file:///a.ts"
U2 == "file:///b.ts"

NameA == <<"a">>
NameC == <<"c">>
FsStates == {FsErr, FsOk(<<>>), FsOk(<<NameA>>), FsOk(<<NameA, NameC>>)}

\* The scores the matcher may give a matching candidate: 1..MaxScore.
MaxScore == 2
SkimFns(names) == [names -> 1..MaxScore]
Range(seq) == {seq[n] : n \in 1..Len(seq)}

NoReq == [op |-> "none"]
NoResp == [kind |-> "none"]

Uris == {U1, U2}
NoText == <<"<none>">>
NotPublished == [some |-> FALSE, diagnostics |-> <<>>]
Published(diagnostics) == [some |-> TRUE, diagnostics |-> diagnostics]
NoTask == 0
Unlocked == [writer |-> NoTask, readers |-> {}]

\* The server before any request, with no handler in flight.
ServerIdle ==
    /\ push_diagnostics = FALSE
    /\ initialized = FALSE
    /\ published = [u \in Uris |-> NotPublished]
    /\ last = [u \in Uris |-> NoText]
NoTasks ==
    /\ tasks = <<>>
    /\ rw = Unlocked
    /\ written = {}

(***************************************************************************)
(* Spec: one request against one text and one directory.                   *)
(***************************************************************************)
Init ==
    /\ text \in Texts
    /\ fs \in FsStates
    /\ documents = {[uri |-> U1, text |-> text]}
    /\ skim = <<>>
    /\ req = NoReq
    /\ locals = <<>>
    /\ resp = NoResp
    /\ ServerIdle
    /\ NoTasks

\* did_open / did_change publishing: perform_diagnostics on the text.
Diagnose ==
    /\ req = NoReq
    /\ req' = [op |-> "diagnose"]
    /\ locals' = parse_code(text)
    /\ resp' = [kind |-> "diagnostics", diagnostics |-> perform_diagnostics(text, fs)]
    /\ UNCHANGED <<text, fs, documents, skim, serverVars, concVars>>

\* The rows of a text, and the length of its longest line.
NumRows(src) == PointAt(src, Len(src)).row + 1
MaxColumn(src) == Max({PointAt(src, b).column : b \in 0..Len(src)})
Positions(src) ==
    [line : 0..NumRows(src), character : 0..(MaxColumn(src) + 1)]

Completion ==
    /\ req = NoReq
    /\ \E uri \in {U1, U2} :
          LET all_items == completion_items(documents, uri)
          IN \E position \in Positions(text) :
                /\ req' = [op |-> "completion", uri |-> uri, position |-> position]
                /\ locals' = all_items
                /\ resp' = IF HasKey(documents, uri)
                           THEN completion_find(all_items, fs, position)
                           ELSE None
    /\ UNCHANGED <<text, fs, documents, skim, serverVars, concVars>>

\* The diagnostics a client sends back: some of those published for the text
\* (for any state of the directory), at most one of them with its data lost
\* or replaced by a number.
Flagged(src) == MapSeq(parse_code(src), MkDiagnostic)
SubSeqs(s) ==
    {SelectSeq([n \in 1..Len(s) |-> <<n, s[n]>>], LAMBDA p : p[1] \in keep) :
        keep \in SUBSET (1..Len(s))}
ClientDiagnostics(src) ==
    LET subs == {MapSeq(ps, LAMBDA p : p[2]) : ps \in SubSeqs(Flagged(src))}
    IN subs \cup {[s EXCEPT ![n].data = v] :
                    <<s, n, v>> \in
                       {x \in subs \X (1..MaxLits + 1) \X {NoData, JsonNumber(<<"5">>)} :
                           x[2] <= Len(x[1])}}

CodeAction ==
    /\ req = NoReq
    /\ \E diagnostics \in ClientDiagnostics(text),
          scores \in SkimFns(Range(get_files(fs))) :
          /\ req' = [op |-> "code_action", uri |-> U1, diagnostics |-> diagnostics]
          /\ skim' = scores
          /\ resp' = code_action(scores, fs, U1, diagnostics)
    /\ UNCHANGED <<text, fs, documents, locals, serverVars, concVars>>

Next == Diagnose \/ Completion \/ CodeAction
Spec == Init /\ [][Next]_vars

(***************************************************************************)
(* Claims about one request (Spec).                                        *)
(***************************************************************************)
DiagnoseDone == req.op = "diagnose"
CompletionDone == req.op = "completion"
CodeActionDone == req.op = "code_action"

\* The character of src at a row and column, read off the text's lines ("" when
\* there is none).
RowStart(src, row) ==
    IF row = 0 THEN 0
    ELSE LET ends == {k \in 1..Len(src) :
                        src[k] = NL /\ Cardinality({j \in 1..k : src[j] = NL}) = row}
         IN IF ends = {} THEN Len(src) + 1 ELSE Max(ends)
CharAt(src, row, column) ==
    LET i == RowStart(src, row) + column + 1
    IN IF column >= 0 /\ i >= 1 /\ i <= Len(src) /\ src[i] # NL THEN src[i] ELSE ""

CandidateSet == Range(get_files(fs))
AbsentLiterals == {n \in 1..Len(locals) : locals[n].text \notin CandidateSet}

\* C1: diagnose returns exactly one diagnostic for each extracted literal whose
\* text is absent from the candidate set and none for one that is present, each
\* carrying its literal's text as data; so no diagnostic when every literal is
\* a candidate and exactly one when exactly one literal is absent.
C1_DiagnosticsAreTheAbsentLiterals ==
    DiagnoseDone =>
        LET diags == resp.diagnostics
        IN /\ Len(diags) = Cardinality(AbsentLiterals)
           /\ \E f \in [1..Len(diags) -> AbsentLiterals] :
                 /\ \A j, k \in 1..Len(diags) : f[j] = f[k] => j = k
                 /\ \A k \in 1..Len(diags) :
                       /\ diags[k].data = JsonString(locals[f[k]].text)
                       /\ diags[k].range = ToLspRange(locals[f[k]].range)
           /\ (AbsentLiterals = {} => diags = <<>>)
           /\ (Cardinality(AbsentLiterals) = 1 => Len(diags) = 1)

\* Two literals were extracted, one a candidate and one not, and one diagnostic
\* came back.
C1_Witness ==
    /\ DiagnoseDone
    /\ Len(locals) = 2
    /\ Cardinality(AbsentLiterals) = 1
    /\ Len(resp.diagnostics) = 1

Quotes == {DQ, SQ}

CursorInsideLiteral ==
    /\ HasKey(documents, req.uri)
    /\ \E n \in 1..Len(locals) :
          /\ locals[n].range.start_point.row = req.position.line
          /\ locals[n].range.start_point.column < req.position.character
          /\ req.position.character < locals[n].range.end_point.column

\* C3: complete returns one item per candidate, in the listing's order, when the
\* document is stored and the cursor is strictly inside a literal's range, and
\* nothing otherwise (a boundary column, another row, no literal, no document).
C3_CompletionTrigger ==
    CompletionDone =>
        IF CursorInsideLiteral
        THEN /\ resp.kind = "Array"
             /\ Len(resp.items) = Len(get_files(fs))
             /\ \A k \in 1..Len(resp.items) : resp.items[k].label = get_files(fs)[k]
        ELSE resp = None

\* A cursor inside a literal got the two candidates of the directory.
C3_Witness ==
    /\ CompletionDone
    /\ CursorInsideLiteral
    /\ resp.kind = "Array"
    /\ Len(resp.items) = 2

ActionsFor(d) == SelectSeq(resp.actions, LAMBDA a : a.diagnostics = <<d>>)

\* C7 as claimed: a code_action request completes with a result, with no action
\* for a diagnostic whose data is missing or is no string, and with the actions
\* of its other diagnostics.
C7_MalformedPayloadYieldsNothing ==
    CodeActionDone =>
        /\ resp.kind = "CodeActions"
        /\ \A n \in 1..Len(req.diagnostics) :
              LET d == req.diagnostics[n]
              IN IF d.data.tag # "String"
                 THEN ActionsFor(d) = <<>>
                 ELSE Len(ActionsFor(d))
                         = Len(get_best_matches(skim, d.data.val, get_files(fs), TopN))

\* C10 as claimed: when the listing fails every request completes as with an
\* empty candidate set: a diagnostic for every literal, an empty item list for
\* a triggered completion, and zero code actions.
C10_ListingFailureDegrades ==
    ~fs.ok =>
        /\ DiagnoseDone =>
              /\ Len(resp.diagnostics) = Len(locals)
              /\ \A n \in 1..Len(locals) :
                    resp.diagnostics[n].data = JsonString(locals[n].text)
        /\ (CompletionDone /\ CursorInsideLiteral) => resp = SomeArray(<<>>)
        /\ CodeActionDone => resp = CodeActions(<<>>)

\* The declaration head of the target array as the texts write it, and the
\* places where an element of such an array opens with a quote mark: the quote
\* follows `[` or `,` and no `]` lies between the head and it.  (No literal of
\* the texts holds a comma or a bracket.)
DeclHead == <<"l", "e", "t", SP>> \o TargetId \o <<"=", "[">>
InTargetArray(src, i) ==
    \E b \in Len(DeclHead)..(i - 1) :
        /\ SubSeq(src, b - Len(DeclHead) + 1, b) = DeclHead
        /\ \A k \in b..i : src[k] # "]"
ElementStarts(src) ==
    {i \in 2..Len(src) :
        src[i] \in Quotes /\ src[i - 1] \in {"[", ","} /\ InTargetArray(src, i)}
Ascending(S) ==
    CHOOSE f \in [1..Cardinality(S) -> S] :
        \A j, k \in 1..Cardinality(S) : j < k => f[j] < f[k]

Before(p, q) == p.line < q.line \/ (p.line = q.line /\ p.character < q.character)

\* C13: the diagnostics are in the source order of their literals: of two
\* diagnostics the earlier one's literal starts earlier in the text, also when
\* the two literals are of different declarations of `folders`.
C13_DiagnosticsInSourceOrder ==
    DiagnoseDone =>
        \A j, k \in 1..Len(resp.diagnostics) :
            j < k => Before(resp.diagnostics[j].range.start,
                            resp.diagnostics[k].range.start)

\* Two declarations on two rows gave one diagnostic each.
C13_Witness ==
    /\ DiagnoseDone
    /\ Len(resp.diagnostics) = 2
    /\ resp.diagnostics[1].range.start.line = 0
    /\ resp.diagnostics[2].range.start.line = 1

\* The suggestions retained for the request's n-th diagnostic, and the number
\* of actions due to the diagnostics before it.
SuggestionsFor(n) ==
    get_best_matches(skim, DataOf(req.diagnostics[n]).val, get_files(fs), TopN)
RECURSIVE ActionsBefore(_)
ActionsBefore(n) ==
    IF n <= 1 THEN 0 ELSE ActionsBefore(n - 1) + Len(SuggestionsFor(n - 1))
Matching(query) ==
    {k \in 1..Len(get_files(fs)) : fuzzy_match(skim, get_files(fs)[k], query).some}

\* C14 as claimed: a code_action request returns, diagnostic after diagnostic,
\* one action per retained suggestion in the suggestions' order; each action
\* is a quick fix that carries its one diagnostic and whose single edit replaces
\* the diagnostic's range in the requested document by the candidate's name in
\* quote marks; the actions number the sum over the diagnostics of
\* min(15, matching candidates).
C14_OneActionPerSuggestion ==
    CodeActionDone =>
        /\ resp.kind = "CodeActions"
        /\ Len(resp.actions) = ActionsBefore(Len(req.diagnostics) + 1)
        /\ \A n \in 1..Len(req.diagnostics) :
              /\ Len(SuggestionsFor(n))
                     = Min2(TopN, Cardinality(Matching(DataOf(req.diagnostics[n]).val)))
              /\ \A k \in 1..Len(SuggestionsFor(n)) :
                    LET a == resp.actions[ActionsBefore(n) + k]
                    IN /\ a.kind = "quickfix"
                       /\ a.diagnostics = <<req.diagnostics[n]>>
                       /\ a.edit.uri = req.uri
                       /\ Len(a.edit.edits) = 1
                       /\ a.edit.edits[1].range = req.diagnostics[n].range
                       /\ a.edit.edits[1].new_text
                              = <<DQ>> \o SuggestionsFor(n)[k] \o <<DQ>>

(***************************************************************************)
(* SpecQuote: the literals as TypeScript writes them (double quotes, single *)
(* quotes, an escaped quote mark before the closing one) and a directory    *)
(* whose names may hold quote marks; one extraction, or one quick fix       *)
(* applied to the text by the client.                                       *)
(***************************************************************************)
QuoteElems ==
    [q : {DQ}, body : {<<"a">>, <<>>, <<"a", BS, DQ>>}]
        \cup {[q |-> SQ, body |-> <<"a">>]}
QuoteTexts ==
    {RenderDecl([name |-> TargetId, elems |-> es]) :
        es \in UNION {[1..k -> QuoteElems] : k \in 1..MaxLits}}

\* A directory named  ","  (quote, comma, quote).
NameQ == <<DQ, ",", DQ>>
QuoteFs == {FsOk(<<NameA>>), FsOk(<<NameQ>>), FsOk(<<NameA, NameQ>>)}

\* The offset of an LSP position in src, and src after the client applied a
\* TextEdit: the characters of the edit's range give way to its new text.
OffsetOf(src, position) == RowStart(src, position.line) + position.character
ApplyEdit(src, edit) ==
    SubSeq(src, 1, OffsetOf(src, edit.range.start))
        \o edit.new_text
        \o SubSeq(src, OffsetOf(src, edit.range.end) + 1, Len(src))

InitQuote ==
    /\ text \in QuoteTexts
    /\ fs \in QuoteFs
    /\ documents = {[uri |-> U1, text |-> text]}
    /\ skim = <<>>
    /\ req = NoReq
    /\ locals = <<>>
    /\ resp = NoResp
    /\ ServerIdle
    /\ NoTasks

Extract ==
    /\ req = NoReq
    /\ req' = [op |-> "extract"]
    /\ locals' = parse_code(text)
    /\ resp' = [kind |-> "literals"]
    /\ UNCHANGED <<text, fs, documents, skim, serverVars, concVars>>

\* The client asks for the quick fixes of the text's diagnostics and applies
\* one of the actions it gets.
ApplyQuickFix ==
    /\ req = NoReq
    /\ \E scores \in SkimFns(Range(get_files(fs))) :
          LET diagnostics == perform_diagnostics(text, fs)
              result == code_action(scores, fs, U1, diagnostics)
          IN /\ result.kind = "CodeActions"
             /\ \E k \in 1..Len(result.actions) :
                   /\ req' = [op |-> "apply", uri |-> U1,
                              diagnostics |-> diagnostics,
                              action |-> result.actions[k]]
                   /\ skim' = scores
                   /\ locals' = parse_code(text)
                   /\ resp' = [kind |-> "applied",
                               text |-> ApplyEdit(text, result.actions[k].edit.edits[1])]
    /\ UNCHANGED <<text, fs, documents, serverVars, concVars>>

NextQuote == Extract \/ ApplyQuickFix
SpecQuote == InitQuote /\ [][NextQuote]_vars

ExtractDone == req.op = "extract"
ApplyDone == req.op = "apply"

\* C12 as claimed: the text of every extracted literal is exactly the characters
\* between the literal's opening and closing quote marks, whatever the quote
\* style and whatever the content starts or ends with; the literal "" has
\* the empty text.
C12_TextIsContentBetweenQuotes ==
    ExtractDone =>
        \A n \in 1..Len(locals) :
            LET r == locals[n].range
            IN /\ locals[n].text = Slice(text, r.start_byte + 1, r.end_byte - 1)
               /\ r.end_byte = r.start_byte + 2 => locals[n].text = <<>>

\* The literal an action's diagnostic is about, the candidate the action puts
\* in, and the texts (data) of a sequence of diagnostics.
FixedLiteral == CHOOSE n \in 1..Len(locals) :
                    ToLspRange(locals[n].range) = req.action.diagnostics[1].range
FixCandidate == req.action.title[2]
DataSeq(diagnostics) == [n \in 1..Len(diagnostics) |-> diagnostics[n].data]
Without(seq, x) ==
    LET n == CHOOSE k \in 1..Len(seq) : seq[k] = x
    IN SubSeq(seq, 1, n - 1) \o SubSeq(seq, n + 1, Len(seq))

\* C20 as claimed: the text after an action's edit has as many literals as
\* before, the literal of the action's diagnostic now reads exactly the
\* candidate, every other literal reads as before, and the diagnostics of the
\* new text are those of the old one without the action's diagnostic.
C20_QuickFixRoundTrip ==
    ApplyDone =>
        LET fixed == parse_code(resp.text)
        IN /\ Len(fixed) = Len(locals)
           /\ \A n \in 1..Len(locals) :
                 fixed[n].text = IF n = FixedLiteral THEN FixCandidate
                                 ELSE locals[n].text
           /\ DataSeq(perform_diagnostics(resp.text, fs))
                  = Without(DataSeq(req.diagnostics), req.action.diagnostics[1].data)

(***************************************************************************)
(* SpecMatch: get_best_matches on a query, a candidate list (repeats       *)
(* allowed) and a limit, for every scoring of the candidates.              *)
(***************************************************************************)
DirA == <<"d", "i", "r", "_", "a">>
DirB == <<"d", "i", "r", "_", "b">>
DirC == <<"d", "i", "r", "_", "c">>
MatchNames == {DirA, DirC, <<"d", "a">>}
Queries == {DirB, DirA, <<>>, <<"d">>, <<"d", "a">>}

\* The longest candidate list, and the largest limit besides code_action's.
MaxCands == 3
MaxTop == 2

CandLists == UNION {[1..k -> MatchNames] : k \in 0..MaxCands}

InitMatch ==
    /\ text = <<>>
    /\ fs = FsErr
    /\ documents = {}
    /\ locals = <<>>
    /\ skim \in SkimFns(MatchNames)
    /\ req \in [op : {"suggest"}, user_input : Queries,
                 possible_matches : CandLists, top_n : (0..MaxTop) \cup {TopN}]
    /\ resp = NoResp
    /\ ServerIdle
    /\ NoTasks

Suggest ==
    /\ req.op = "suggest"
    /\ resp = NoResp
    /\ resp' = [kind |-> "matches",
                names |-> get_best_matches(skim, req.user_input,
                                           req.possible_matches, req.top_n)]
    /\ UNCHANGED <<text, fs, documents, skim, req, locals, serverVars, concVars>>

NextMatch == Suggest
SpecMatch == InitMatch /\ [][NextMatch]_vars

SuggestDone == resp.kind = "matches"
ScoreOf(name) == fuzzy_match(skim, name, req.user_input)
Count(seq, x) == Cardinality({n \in 1..Len(seq) : seq[n] = x})

\* C5: the names get_best_matches returns are in non-increasing order of score,
\* each of them matches the query, none occurs more often than in the input,
\* and there are at most top_n of them.
C5_SortedMatchedBounded ==
    SuggestDone =>
        LET out == resp.names
        IN /\ \A i, j \in 1..Len(out) :
                 i < j => ScoreOf(out[i]).score >= ScoreOf(out[j]).score
           /\ \A i \in 1..Len(out) : ScoreOf(out[i]).some
           /\ \A i \in 1..Len(out) :
                 Count(out, out[i]) <= Count(req.possible_matches, out[i])
           /\ Len(out) <= req.top_n

\* Three candidates matched, the limit 2 cut one, and the two returned have
\* different scores.
C5_Witness ==
    /\ SuggestDone
    /\ req.top_n = 2
    /\ Len(req.possible_matches) = 3
    /\ \A n \in 1..3 : ScoreOf(req.possible_matches[n]).some
    /\ Len(resp.names) = 2
    /\ ScoreOf(resp.names[1]).score > ScoreOf(resp.names[2]).score

\* Scenario A: suggest("dir_b", {dir_a, dir_c}, 15).
ScenarioA ==
    /\ SuggestDone
    /\ req.user_input = DirB
    /\ Len(req.possible_matches) = 2
    /\ Range(req.possible_matches) = {DirA, DirC}
    /\ req.top_n = TopN

\* C6 as claimed: Scenario A returns both candidates, dir_a and dir_c.
C6_ScenarioAReturnsBoth ==
    ScenarioA => /\ Len(resp.names) = 2
                 /\ Range(resp.names) = {DirA, DirC}

\* C6 (amended): Scenario A returns no candidate: the characters of dir_b occur
\* in order in neither dir_a nor dir_c, so the matcher matches neither.
C6_ScenarioAReturnsNone ==
    ScenarioA => /\ ~IsSubseq(DirB, DirA)
                 /\ ~IsSubseq(DirB, DirC)
                 /\ resp.names = <<>>

C6_Witness == ScenarioA /\ resp.names = <<>>

(***************************************************************************)
(* SpecStore: the notifications and requests of a session, handled one at  *)
(* a time on the document store.                                           *)
(***************************************************************************)
TextValid == RenderDecl([name |-> TargetId, elems |-> <<[q |-> DQ, body |-> <<"a">>]>>])
TextInvalid == RenderDecl([name |-> TargetId, elems |-> <<[q |-> DQ, body |-> <<>>]>>])
StoreTexts == {TextValid, TextInvalid}

\* The most content changes of one change notification.
MaxChanges == 2
ContentChanges == UNION {[1..k -> StoreTexts] : k \in 0..MaxChanges}

\* A cursor inside the literal of either text, and one outside it.
StorePositions == {[line |-> 0, character |-> 14], [line |-> 0, character |-> 0]}

InitStore ==
    /\ text = <<>>
    /\ fs \in {FsErr, FsOk(<<NameA>>)}
    /\ documents = {}
    /\ skim = <<>>
    /\ req = NoReq
    /\ locals = <<>>
    /\ resp = NoResp
    /\ ServerIdle
    /\ NoTasks

\* capabilities.text_document is None ("none"), or holds publish_diagnostics
\* ("publish") or not ("plain").
Initialize(capabilities) ==
    /\ ~initialized
    /\ req' = [op |-> "initialize", capabilities |-> capabilities]
    /\ IF capabilities = "none"
       THEN /\ resp' = Panic
            /\ UNCHANGED <<push_diagnostics, initialized>>
       ELSE /\ resp' = [kind |-> "InitializeResult"]
            /\ push_diagnostics' = (capabilities = "publish")
            /\ initialized' = TRUE
    /\ UNCHANGED <<text, fs, documents, skim, locals, published, last, concVars>>

\* publish_diagnostics, when the client takes pushed diagnostics.
Publish(uri, source_code) ==
    published' = IF push_diagnostics
                 THEN [published EXCEPT ![uri] =
                          Published(perform_diagnostics(source_code, fs))]
                 ELSE published

DidOpen(uri, content) ==
    /\ initialized
    /\ req' = [op |-> "did_open", uri |-> uri, text |-> content]
    /\ documents' = Insert(documents, uri, content)
    /\ Publish(uri, content)
    /\ last' = [last EXCEPT ![uri] = content]
    /\ resp' = NoResp
    /\ UNCHANGED <<text, fs, skim, locals, push_diagnostics, initialized, concVars>>

DidChange(uri, content_changes) ==
    /\ initialized
    /\ req' = [op |-> "did_change", uri |-> uri, content_changes |-> content_changes]
    /\ IF content_changes = <<>>
       THEN UNCHANGED <<documents, published, last>>
       ELSE /\ documents' = Insert(documents, uri, Head(content_changes))
            /\ Publish(uri, Head(content_changes))
            /\ last' = [last EXCEPT ![uri] = Head(content_changes)]
    /\ resp' = NoResp
    /\ UNCHANGED <<text, fs, skim, locals, push_diagnostics, initialized, concVars>>

DidClose(uri) ==
    /\ initialized
    /\ req' = [op |-> "did_close", uri |-> uri]
    /\ documents' = Remove(documents, uri)
    /\ last' = [last EXCEPT ![uri] = NoText]
    /\ resp' = NoResp
    /\ UNCHANGED <<text, fs, skim, locals, push_diagnostics, initialized, published,
                   concVars>>

Shutdown ==
    /\ initialized
    /\ req' = [op |-> "shutdown"]
    /\ documents' = {}
    /\ last' = [u \in Uris |-> NoText]
    /\ resp' = [kind |-> "Ok"]
    /\ UNCHANGED <<text, fs, skim, locals, push_diagnostics, initialized, published,
                   concVars>>

StoreCompletion(uri, position) ==
    /\ initialized
    /\ req' = [op |-> "completion", uri |-> uri, position |-> position]
    /\ locals' = completion_items(documents, uri)
    /\ resp' = completion(documents, fs, uri, position)
    /\ UNCHANGED <<text, fs, documents, skim, serverVars, concVars>>

NextStore ==
    \/ \E capabilities \in {"none", "plain", "publish"} : Initialize(capabilities)
    \/ \E uri \in Uris, content \in StoreTexts : DidOpen(uri, content)
    \/ \E uri \in Uris, content_changes \in ContentChanges :
          DidChange(uri, content_changes)
    \/ \E uri \in Uris : DidClose(uri)
    \/ Shutdown
    \/ \E uri \in Uris, position \in StorePositions : StoreCompletion(uri, position)
SpecStore == InitStore /\ [][NextStore]_vars

\* read(id): the stored text of id, if any.
Read(docs, uri) == IF HasKey(docs, uri) THEN Get(docs, uri) ELSE NoText
EntriesOf(docs, uri) == {e \in docs : e.uri = uri}

C8_StoreState ==
    /\ \A e1, e2 \in documents : e1.uri = e2.uri => e1 = e2
    /\ \A uri \in Uris :
          /\ Cardinality(EntriesOf(documents, uri)) = (IF last[uri] = NoText THEN 0 ELSE 1)
          /\ Read(documents, uri) = last[uri]
    /\ \A uri \in Uris, content \in StoreTexts :
          Insert(Insert(documents, uri, content), uri, content)
             = Insert(documents, uri, content)
C8_StoreFrame ==
    req'.op \in {"did_open", "did_change", "did_close"} =>
        \A uri \in Uris \ {req'.uri} :
            EntriesOf(documents', uri) = EntriesOf(documents, uri)

\* C8: at every point of a session handled one request at a time the store
\* holds at most one entry per identifier, reading an identifier gives the
\* text of its latest open or change (the first content change) unless a close
\* (or the shutdown) followed, writing the same text twice is writing it once,
\* and an open, change or close leaves the other identifiers' entries alone.
C8_StoreIsLastWrite == [](C8_StoreState) /\ [][C8_StoreFrame]_vars

\* A change with two different content changes stored its first one, while the
\* other document stays open.
C8_Witness ==
    /\ req.op = "did_change"
    /\ Len(req.content_changes) = 2
    /\ req.content_changes[1] # req.content_changes[2]
    /\ Read(documents, req.uri) = req.content_changes[1]
    /\ \A uri \in Uris : HasKey(documents, uri)

\* C15 as claimed: the store has an entry for an identifier exactly when it was
\* opened and not closed since.  Step by step: an open leaves an entry; an
\* entry that was not there comes from an open of its identifier alone; a
\* change keeps an identifier with or without its entry as it was; after a
\* close of the identifier, and after the shutdown, there is no entry.
C15_EntryIffOpen ==
    [][\A uri \in Uris :
          /\ (req'.op = "did_open" /\ req'.uri = uri) => HasKey(documents', uri)
          /\ (~HasKey(documents, uri) /\ HasKey(documents', uri))
                 => (req'.op = "did_open" /\ req'.uri = uri)
          /\ req'.op = "did_change"
                 => (HasKey(documents', uri) <=> HasKey(documents, uri))
          /\ (req'.op = "did_close" /\ req'.uri = uri) => ~HasKey(documents', uri)
          /\ req'.op = "shutdown" => ~HasKey(documents', uri)]_vars

(***************************************************************************)
(* SpecFault: the session of SpecStore on an initialized server, where the  *)
(* store's lock may be poisoned (RwLock::read and RwLock::write then return  *)
(* Err) and Parser::parse may return None.  A panic leaves the handler; the  *)
(* model follows the server no further.                                      *)
(***************************************************************************)
PoisonedLock == [writer |-> NoTask, readers |-> {}, poisoned |-> TRUE]
IsPoisoned(lock) == "poisoned" \in DOMAIN lock

\* What Parser::parse(source_code, None) returned, when it was called.
ParseOutcomes == {"tree", "none"}
Parsed(called, outcome) == IF called THEN outcome ELSE "unused"

InitFault ==
    /\ text = <<>>
    /\ fs = FsOk(<<NameA>>)
    /\ documents = {}
    /\ skim = <<>>
    /\ req = NoReq
    /\ locals = <<>>
    /\ resp = NoResp
    /\ push_diagnostics \in BOOLEAN
    /\ initialized = TRUE
    /\ published = [u \in Uris |-> NotPublished]
    /\ last = [u \in Uris |-> NoText]
    /\ tasks = <<>>
    /\ rw \in {Unlocked, PoisonedLock}
    /\ written = {}

\* The end of did_open and did_change: parse_code unwraps the parser's tree.
PublishOrPanic(uri, source_code, outcome) ==
    IF ~push_diagnostics THEN resp' = NoResp /\ UNCHANGED published
    ELSE IF outcome = "none" THEN resp' = Panic /\ UNCHANGED published
    ELSE resp' = NoResp /\ Publish(uri, source_code)

FaultFrame == UNCHANGED <<text, fs, skim, push_diagnostics, initialized, last, concVars>>

\* did_open: docs.unwrap() panics on Err.
FaultDidOpen(uri, content, outcome) ==
    /\ resp # Panic
    /\ req' = [op |-> "did_open", uri |-> uri,
               tree |-> Parsed(~IsPoisoned(rw) /\ push_diagnostics, outcome)]
    /\ IF IsPoisoned(rw)
       THEN resp' = Panic /\ UNCHANGED <<documents, published>>
       ELSE /\ documents' = Insert(documents, uri, content)
            /\ PublishOrPanic(uri, content, outcome)
    /\ UNCHANGED locals
    /\ FaultFrame

\* did_change: `if let Ok(mut docs)` skips the insert on Err.
FaultDidChange(uri, content_changes, outcome) ==
    /\ resp # Panic
    /\ req' = [op |-> "did_change", uri |-> uri,
               tree |-> Parsed(content_changes # <<>> /\ push_diagnostics, outcome)]
    /\ IF content_changes = <<>>
       THEN resp' = NoResp /\ UNCHANGED <<documents, published>>
       ELSE /\ documents' = IF IsPoisoned(rw) THEN documents
                            ELSE Insert(documents, uri, Head(content_changes))
            /\ PublishOrPanic(uri, Head(content_changes), outcome)
    /\ UNCHANGED locals
    /\ FaultFrame

\* did_close: docs.unwrap() panics on Err.
FaultDidClose(uri) ==
    /\ resp # Panic
    /\ req' = [op |-> "did_close", uri |-> uri, tree |-> "unused"]
    /\ IF IsPoisoned(rw)
       THEN resp' = Panic /\ UNCHANGED documents
       ELSE resp' = NoResp /\ documents' = Remove(documents, uri)
    /\ UNCHANGED <<locals, published>>
    /\ FaultFrame

\* shutdown: `if let Ok(mut docs)` skips the clear on Err.
FaultShutdown ==
    /\ resp # Panic
    /\ req' = [op |-> "shutdown", uri |-> U1, tree |-> "unused"]
    /\ documents' = IF IsPoisoned(rw) THEN documents ELSE {}
    /\ resp' = [kind |-> "Ok"]
    /\ UNCHANGED <<locals, published>>
    /\ FaultFrame

\* completion: Ok(None) on Err and on a missing entry; parse_code unwraps.
FaultCompletion(uri, position, outcome) ==
    /\ resp # Panic
    /\ LET called == ~IsPoisoned(rw) /\ HasKey(documents, uri)
       IN /\ req' = [op |-> "completion", uri |-> uri,
                     tree |-> Parsed(called, outcome)]
          /\ IF ~called THEN resp' = None /\ UNCHANGED locals
             ELSE IF outcome = "none" THEN resp' = Panic /\ UNCHANGED locals
             ELSE /\ locals' = parse_code(Get(documents, uri))
                  /\ resp' = completion_find(locals', fs, position)
    /\ UNCHANGED <<documents, published>>
    /\ FaultFrame

NextFault ==
    \/ \E uri \in Uris, content \in StoreTexts, outcome \in ParseOutcomes :
          FaultDidOpen(uri, content, outcome)
    \/ \E uri \in Uris, content_changes \in ContentChanges, outcome \in ParseOutcomes :
          FaultDidChange(uri, content_changes, outcome)
    \/ \E uri \in Uris : FaultDidClose(uri)
    \/ FaultShutdown
    \/ \E uri \in Uris, position \in StorePositions, outcome \in ParseOutcomes :
          FaultCompletion(uri, position, outcome)
SpecFault == InitFault /\ [][NextFault]_vars

Returned == {NoResp, None, [kind |-> "Ok"]}

\* C16 as claimed: with the store's lock poisoned, every handler (did_open,
\* did_change, did_close, completion, shutdown) returns a neutral result and
\* does not panic, and the store is as it was.
C16_PoisonedLockIsSurvived ==
    (IsPoisoned(rw) /\ req.op # "none" /\ req.tree # "none") =>
        /\ resp \in Returned
        /\ documents = {}

\* C17 as claimed: when the parser gives no tree the request that called it
\* completes normally, with no diagnostics published and no completion items.
C17_NoTreeIsSurvived ==
    (req.op # "none" /\ req.tree = "none") =>
        /\ resp \in Returned
        /\ req.op \in {"did_open", "did_change"}
               => published[req.uri] = Published(<<>>)

(***************************************************************************)
(* SpecConc: handlers in flight at the same time, interleaved at every     *)
(* step.  A handler that arrives later is one that takes its first step    *)
(* later.  HashMap::insert is not atomic for another thread: between its   *)
(* two steps the entry holds a part of the text.                           *)
(***************************************************************************)
\* The most handlers in flight.
MaxTasks == 3

ConcPosition == [line |-> 0, character |-> 14]
\* The diagnostic of TextInvalid as published, and as a client sends it back
\* with a number for its data; the matcher's scores of the directory.
ConcDiagnostic == Flagged(TextInvalid)[1]
ConcMalformed == [ConcDiagnostic EXCEPT !.data = JsonNumber(<<"5">>)]
ConcScores == [name \in {NameA} |-> 1]
ConcRequests ==
    <<[op |-> "did_open", uri |-> U1, content_changes |-> <<TextValid>>,
       diagnostics |-> <<>>],
      [op |-> "did_change", uri |-> U1, content_changes |-> <<TextInvalid>>,
       diagnostics |-> <<>>],
      [op |-> "did_change", uri |-> U1, content_changes |-> <<>>, diagnostics |-> <<>>],
      [op |-> "did_close", uri |-> U1, content_changes |-> <<>>, diagnostics |-> <<>>],
      [op |-> "completion", uri |-> U1, content_changes |-> <<>>, diagnostics |-> <<>>],
      [op |-> "did_open", uri |-> U2, content_changes |-> <<TextInvalid>>,
       diagnostics |-> <<>>],
      [op |-> "completion", uri |-> U2, content_changes |-> <<>>, diagnostics |-> <<>>],
      [op |-> "shutdown", uri |-> U1, content_changes |-> <<>>, diagnostics |-> <<>>],
      [op |-> "code_action", uri |-> U1, content_changes |-> <<>>,
       diagnostics |-> <<ConcDiagnostic>>],
      [op |-> "code_action", uri |-> U1, content_changes |-> <<>>,
       diagnostics |-> <<ConcMalformed>>]>>

NewTask(request) ==
    [op |-> request.op, uri |-> request.uri,
     content_changes |-> request.content_changes,
     diagnostics |-> request.diagnostics,
     pc |-> "start", seen |-> NoText, resp |-> NoResp]

\* A part of a text: what the entry holds while the insert is under way.
Torn(content) == SubSeq(content, 1, Len(content) \div 2)

InitConc ==
    /\ text = <<>>
    /\ fs = FsOk(<<NameA>>)
    /\ documents = {}
    /\ skim = <<>>
    /\ req = NoReq
    /\ locals = <<>>
    /\ resp = NoResp
    /\ push_diagnostics \in BOOLEAN
    /\ initialized = TRUE
    /\ published = [u \in Uris |-> NotPublished]
    /\ last = [u \in Uris |-> NoText]
    /\ \E n \in 1..MaxTasks :
          \E pick \in [1..n -> 1..Len(ConcRequests)] :
             /\ \A i, j \in 1..n : i < j => pick[i] <= pick[j]
             /\ tasks = [i \in 1..n |-> NewTask(ConcRequests[pick[i]])]
    /\ rw = Unlocked
    /\ written = {}

TaskIds == 1..Len(tasks)
Writers == {"did_open", "did_change", "did_close", "shutdown"}
At(i, pc) == tasks[i].pc = pc
Goto(i, pc) == tasks' = [tasks EXCEPT ![i].pc = pc]
ConcFrame == UNCHANGED <<text, fs, skim, req, locals, resp, push_diagnostics,
                         initialized, last>>

\* did_change with no content change returns at once.
ReturnEarly(i) ==
    /\ At(i, "start")
    /\ tasks[i].op = "did_change" /\ tasks[i].content_changes = <<>>
    /\ Goto(i, "done")
    /\ UNCHANGED <<documents, published, rw, written>>
    /\ ConcFrame

\* self.documents.write()
AcquireWrite(i) ==
    /\ At(i, "start")
    /\ tasks[i].op \in Writers
    /\ tasks[i].op = "did_change" => tasks[i].content_changes # <<>>
    /\ CanWrite(rw)
    /\ rw' = [rw EXCEPT !.writer = i]
    /\ Goto(i, "locked")
    /\ UNCHANGED <<documents, published, written>>
    /\ ConcFrame

\* docs.insert(uri, text), its first part.
BeginInsert(i) ==
    /\ At(i, "locked")
    /\ tasks[i].op \in {"did_open", "did_change"}
    /\ documents' = Insert(documents, tasks[i].uri, Torn(Head(tasks[i].content_changes)))
    /\ written' = written \cup {[uri |-> tasks[i].uri,
                                  text |-> Head(tasks[i].content_changes)]}
    /\ Goto(i, "writing")
    /\ UNCHANGED <<published, rw>>
    /\ ConcFrame

\* docs.insert(uri, text), its end; the guard is dropped with the statement.
EndInsert(i) ==
    /\ At(i, "writing")
    /\ documents' = Insert(documents, tasks[i].uri, Head(tasks[i].content_changes))
    /\ rw' = [rw EXCEPT !.writer = NoTask]
    /\ Goto(i, "unlocked")
    /\ UNCHANGED <<published, written>>
    /\ ConcFrame

\* The rest of did_open and did_change: push_diagnostics is read and the
\* diagnostics of the notification's text are published.
PublishDiagnostics(i) ==
    /\ At(i, "unlocked")
    /\ Publish(tasks[i].uri, Head(tasks[i].content_changes))
    /\ Goto(i, "done")
    /\ UNCHANGED <<documents, rw, written>>
    /\ ConcFrame

\* did_close: docs.remove(uri), and the guard is dropped.
RemoveEntry(i) ==
    /\ At(i, "locked")
    /\ tasks[i].op = "did_close"
    /\ documents' = Remove(documents, tasks[i].uri)
    /\ rw' = [rw EXCEPT !.writer = NoTask]
    /\ Goto(i, "done")
    /\ UNCHANGED <<published, written>>
    /\ ConcFrame

\* shutdown: docs.clear(), and the guard is dropped.
ClearStore(i) ==
    /\ At(i, "locked")
    /\ tasks[i].op = "shutdown"
    /\ documents' = {}
    /\ rw' = [rw EXCEPT !.writer = NoTask]
    /\ tasks' = [tasks EXCEPT ![i].pc = "done", ![i].resp = [kind |-> "Ok"]]
    /\ UNCHANGED <<published, written>>
    /\ ConcFrame

\* completion: self.documents.read()
AcquireRead(i) ==
    /\ At(i, "start")
    /\ tasks[i].op = "completion"
    /\ CanRead(rw)
    /\ rw' = [rw EXCEPT !.readers = @ \cup {i}]
    /\ Goto(i, "reading")
    /\ UNCHANGED <<documents, published, written>>
    /\ ConcFrame

\* completion: docs.get(uri)
ReadEntry(i) ==
    /\ At(i, "reading")
    /\ tasks' = [tasks EXCEPT ![i].pc = "read", ![i].seen = Read(documents, tasks[i].uri)]
    /\ UNCHANGED <<documents, published, rw, written>>
    /\ ConcFrame

\* completion: the answer from the text read; the guard is dropped on return.
ReturnCompletion(i) ==
    /\ At(i, "read")
    /\ tasks' = [tasks EXCEPT
                    ![i].pc = "done",
                    ![i].resp = IF tasks[i].seen = NoText THEN None
                                ELSE completion_find(parse_code(tasks[i].seen), fs,
                                                     ConcPosition)]
    /\ rw' = [rw EXCEPT !.readers = @ \ {i}]
    /\ UNCHANGED <<documents, published, written>>
    /\ ConcFrame

\* code_action: no lock and no await; the unwrap of a payload that is no
\* string panics and the handler never returns.
RunCodeAction(i) ==
    /\ At(i, "start")
    /\ tasks[i].op = "code_action"
    /\ LET result == code_action(ConcScores, fs, tasks[i].uri, tasks[i].diagnostics)
       IN tasks' = [tasks EXCEPT
                       ![i].pc = IF result = Panic THEN "panicked" ELSE "done",
                       ![i].resp = result]
    /\ UNCHANGED <<documents, published, rw, written>>
    /\ ConcFrame

NextConc ==
    \E i \in TaskIds :
        \/ ReturnEarly(i)
        \/ AcquireWrite(i)
        \/ BeginInsert(i)
        \/ EndInsert(i)
        \/ PublishDiagnostics(i)
        \/ RemoveEntry(i)
        \/ ClearStore(i)
        \/ AcquireRead(i)
        \/ ReadEntry(i)
        \/ ReturnCompletion(i)
        \/ RunCodeAction(i)
SpecConc == InitConc /\ [][NextConc]_vars

\* The runtime polls every handler that can go on: a step of a handler that
\* stays possible is taken.  Moves(i) are the steps on the lock and the store;
\* the steps that compute over a text or a payload (PublishDiagnostics,
\* ReturnCompletion, RunCodeAction) are possible exactly when CanCompute(i)
\* holds and are the only ones to move a handler on from there, so weak
\* fairness for them is written with that condition in the place of ENABLED.
Moves(i) ==
    \/ ReturnEarly(i)
    \/ AcquireWrite(i)
    \/ BeginInsert(i)
    \/ EndInsert(i)
    \/ RemoveEntry(i)
    \/ ClearStore(i)
    \/ AcquireRead(i)
    \/ ReadEntry(i)
CanCompute(i) ==
    /\ i \in TaskIds
    /\ \/ At(i, "unlocked")
       \/ At(i, "read")
       \/ At(i, "start") /\ tasks[i].op = "code_action"
Computed(i) == CanCompute(i) /\ tasks'[i].pc # tasks[i].pc
SpecConcFair ==
    /\ SpecConc
    /\ \A i \in 1..MaxTasks :
          /\ WF_vars(i \in TaskIds /\ Moves(i))
          /\ []<>(~CanCompute(i)) \/ []<><<Computed(i)>>_vars

WriterInside(i) == tasks[i].pc \in {"locked", "writing"}
ReaderInside(i) == tasks[i].pc \in {"reading", "read"}

\* C9: in every interleaving, while a writer is inside its store access no
\* other handler is inside one (readers may be inside together), and the text
\* a reader gets for an identifier is one of the whole texts whose insert for
\* that identifier has begun.
C9_LockDiscipline ==
    /\ \A i, j \in TaskIds :
          (i # j /\ WriterInside(i)) => ~(WriterInside(j) \/ ReaderInside(j))
    /\ \A i \in TaskIds :
          /\ WriterInside(i) <=> rw.writer = i
          /\ ReaderInside(i) <=> i \in rw.readers
    /\ \A i \in TaskIds :
          tasks[i].seen # NoText =>
              [uri |-> tasks[i].uri, text |-> tasks[i].seen] \in written

\* Two readers are inside at the same time, and one has read the stored text.
C9_Witness ==
    \E i, j \in TaskIds :
        /\ i # j
        /\ ReaderInside(i) /\ ReaderInside(j)
        /\ tasks[i].seen = TextValid

AllDone == \A i \in TaskIds : tasks[i].pc = "done"
HoldsStoreLock(i) == rw.writer = i \/ i \in rw.readers

\* C18 as claimed: under fair scheduling every handler in flight (open, change,
\* close, completion, code action, shutdown) completes in the end, whatever the
\* interleaving, and a handler that awaits the publication of its diagnostics
\* holds no lock of the store.
C18_HandlersComplete ==
    /\ <>[]AllDone
    /\ [](\A i \in TaskIds : At(i, "unlocked") => ~HoldsStoreLock(i))

\* C19 as claimed: with a client that takes pushed diagnostics, once every
\* handler has completed the diagnostics last published for a document are
\* those of the text the store holds for it.
C19_LastPublishedIsStored ==
    (push_diagnostics /\ AllDone) =>
        \A uri \in Uris :
            (HasKey(documents, uri) /\ published[uri].some) =>
                published[uri].diagnostics
                    = perform_diagnostics(Get(documents, uri), fs)
====
